---- MODULE Spec2Model ----
(***************************************************************************)
(* Model of src/app.js (WebP Converter AI): the complexity estimator, the *)
(* quality mapper, the adaptive encoder convertEntry and the handlers     *)
(* that drive it (per-card buttons, convert-all, download-all).           *)
(*                                                                         *)
(* JavaScript Numbers are IEEE-754 doubles.  The encoder's search         *)
(* subtracts the double 0.05 repeatedly and compares with the double 0.2, *)
(* so the arithmetic is modelled bit-exactly: a Number is a fixed-point   *)
(* integer in units of 2^-58, held as four limbs <<l3,l2,l1,l0>> of base  *)
(* 2^15 (TLC integers are 32 bits wide), and every operation rounds its   *)
(* exact result to 53 significant bits, ties to even.  The representation *)
(* is exact for every double in [2^-6, 2^13), for 0 and for the integers  *)
(* (negative ones have a negative top limb), which covers all the values  *)
(* the program computes in this model.                                    *)
(***************************************************************************)
EXTENDS Integers, Sequences, FiniteSets, TLC

\* ---------------------------------------------------------------- Numbers
\* The operations are functions, not operators, so that their arguments are
\* values when they are applied.
B == 2 ^ 15

Limbs == Seq(Int)

\* not-a-number: a tuple no normalised value equals
NaN == <<0, 0, 0, -1>>

IsNaN(x) == x[4] < 0

Zero == <<0, 0, 0, 0>>

\* the Number with integer value n (n * 2^58 = n * 2^13 * 2^45)
FromInt(n) == <<n * 8192, 0, 0, 0>>

\* carry propagation: every limb but the top one back into 0..B-1
CarryLo[a \in Limbs] == <<a[1], a[2], a[3] + (a[4] \div B), a[4] % B>>

CarryMid[a \in Limbs] == <<a[1], a[2] + (a[3] \div B), a[3] % B, a[4]>>

CarryHi[a \in Limbs] == <<a[1] + (a[2] \div B), a[2] % B, a[3], a[4]>>

Norm[a \in Limbs] == CarryHi[CarryMid[CarryLo[a]]]

\* spacing of the doubles around a value whose top limb is l3, in units of
\* 2^-58: a value in [2^(52+j), 2^(53+j)) units has l3 in [2^(7+j), 2^(8+j))
Ulp[l3 \in Int] == IF l3 < 256 THEN 1 ELSE 2 * Ulp[l3 \div 2]

\* a + (a fraction of a unit described by tail) moved to the nearest multiple
\* of g, ties to the even multiple.  tail: 0 nothing, 1 below half a unit,
\* 2 exactly half, 3 above half.
RoundAt[a \in Limbs, g \in Int, tail \in Int] ==
    LET low  == a[4] % g
        half == g \div 2
        odd  == (a[4] \div g) % 2 = 1
        up   == IF g = 1
                THEN tail = 3 \/ (tail = 2 /\ odd)
                ELSE low > half \/ (low = half /\ (tail > 0 \/ odd))
    IN  <<a[1], a[2], a[3], a[4] - low + (IF up THEN g ELSE 0)>>

\* round an exact value to 53 significant bits, ties to even
RoundNE[a \in Limbs, tail \in Int] == Norm[RoundAt[a, Ulp[a[1]], tail]]

\* long division of the limbs x[i..4] by d with incoming remainder r: the
\* quotient limbs, then the last remainder
LongDiv[x \in Limbs, d \in Int, i \in Int, r \in Int, acc \in Limbs] ==
    IF i > 4 THEN Append(acc, r)
    ELSE LongDiv[x, d, i + 1, (r * B + x[i]) % d, Append(acc, (r * B + x[i]) \div d)]

TailOf[r \in Int, d \in Int] ==
    IF r = 0 THEN 0 ELSE IF 2 * r < d THEN 1 ELSE IF 2 * r = d THEN 2 ELSE 3

DivRound[qr \in Limbs, d \in Int] == RoundNE[SubSeq(qr, 1, 4), TailOf[qr[5], d]]

\* x / d for a non-negative x and an integer 0 <= d < 2^16; only 0 / 0
\* divides by zero in the program
NumDivF[x \in Limbs, d \in Int] ==
    IF IsNaN(x) \/ d = 0 THEN NaN ELSE DivRound[LongDiv[x, d, 1, 0, <<>>], d]

NumDiv(x, d) == NumDivF[x, d]

\* x - y for x >= y >= 0
NumSubF[x \in Limbs, y \in Limbs] ==
    IF IsNaN(x) \/ IsNaN(y) THEN NaN
    ELSE RoundNE[Norm[<<x[1] - y[1], x[2] - y[2], x[3] - y[3], x[4] - y[4]>>], 0]

NumSub(x, y) == NumSubF[x, y]

\* x + y for non-negative x and y
NumAddF[x \in Limbs, y \in Limbs] ==
    IF IsNaN(x) \/ IsNaN(y) THEN NaN
    ELSE RoundNE[Norm[<<x[1] + y[1], x[2] + y[2], x[3] + y[3], x[4] + y[4]>>], 0]

NumAdd(x, y) == NumAddF[x, y]

\* x * k for a non-negative x and an integer 0 <= k <= 1024
NumMulF[x \in Limbs, k \in Int] ==
    IF IsNaN(x) THEN NaN
    ELSE RoundNE[Norm[<<x[1] * k, x[2] * k, x[3] * k, x[4] * k>>], 0]

NumMul(x, k) == NumMulF[x, k]

\* x > y; false when either is NaN
NumGtF[x \in Limbs, y \in Limbs] ==
    /\ ~IsNaN(x)
    /\ ~IsNaN(y)
    /\ \/ x[1] > y[1]
       \/ x[1] = y[1] /\ x[2] > y[2]
       \/ x[1] = y[1] /\ x[2] = y[2] /\ x[3] > y[3]
       \/ x[1] = y[1] /\ x[2] = y[2] /\ x[3] = y[3] /\ x[4] > y[4]

NumGt(x, y) == NumGtF[x, y]

NumLt(x, y) == NumGtF[y, x]

\* Math.round: the integer nearest to x, ties upward = floor(x + 1/2)
RoundHalfUp[h \in Limbs] == <<h[1] - (h[1] % 8192), 0, 0, 0>>

MathRoundF[x \in Limbs] ==
    IF IsNaN(x) THEN NaN ELSE RoundHalfUp[Norm[<<x[1] + 4096, x[2], x[3], x[4]>>]]

MathRound(x) == MathRoundF[x]

\* Math.floor of a non-negative Number, as an integer
MathFloor(x) == x[1] \div 8192

\* the integer value of an integer-valued Number
ToInt(x) == x[1] \div 8192

Abs(n) == IF n < 0 THEN -n ELSE n

Max(a, b) == IF a > b THEN a ELSE b

\* ----------------------------------------------------------------- Bounds
\* files the user submits in one session
NFiles == 2

\* pixels of the largest image whose canvas is enumerated pixel by pixel
MaxPixels == 3

\* characters of the longest text typed into the target-size input
MaxInputLen == 2

\* user events (submissions, clicks, inputs) in one session of the whole
\* application
MaxEvents == 4

\* cap of the history counter of a pipeline's codec invocations (the search
\* of convertEntry issues at most 17)
CallsCap == 20

Files == 1..NFiles

\* ------------------------------------------------------------------ Images
\* pixel colours <<r, g, b>> (the alpha sample is never read)
Colours == {<<0, 0, 0>>, <<255, 255, 255>>, <<255, 0, 0>>, <<128, 128, 128>>}

SmallDims == {d \in (1..MaxPixels) \X (1..MaxPixels) : d[1] * d[2] <= MaxPixels}

\* a decoded image: its natural size and the pixels drawImage puts on the
\* estimator's canvas.  Images within maxDim are drawn at their own size; of
\* the larger ones the model has the 1000 x 1 strip, whose canvas is 256 x 0.
SmallImages ==
    UNION {[naturalWidth : {d[1]}, naturalHeight : {d[2]},
            pixels : [1..(d[1] * d[2]) -> Colours]] : d \in SmallDims}

StripImage == [naturalWidth |-> 1000, naturalHeight |-> 1, pixels |-> <<>>]

Images == SmallImages \cup {StripImage}

NoImage == [naturalWidth |-> 0, naturalHeight |-> 0, pixels |-> <<>>]

maxDim == 256

\* canvas size chosen by computeComplexity
CanvasScale(image) ==
    LET m == Max(image.naturalWidth, image.naturalHeight)
    IN  IF m > maxDim THEN NumDiv(FromInt(maxDim), m) ELSE FromInt(1)

CanvasW(image) == MathFloor(NumMul(CanvasScale(image), image.naturalWidth))

CanvasH(image) == MathFloor(NumMul(CanvasScale(image), image.naturalHeight))

\* ctx.getImageData(0, 0, w, h).data: the flat R,G,B,A samples in scan order
RECURSIVE GetImageData(_)
GetImageData(pixels) ==
    IF pixels = <<>> THEN <<>>
    ELSE <<pixels[1][1], pixels[1][2], pixels[1][3], 255>> \o GetImageData(Tail(pixels))

\* the loop of computeComplexity; data[i] of the source is data[i + 1] here
RECURSIVE DiffLoop(_, _, _, _)
DiffLoop(data, i, diffSum, maxDiff) ==
    IF i < Len(data) - 4
    THEN LET dr == Abs(data[i + 1] - data[i + 5])
             dg == Abs(data[i + 2] - data[i + 6])
             db == Abs(data[i + 3] - data[i + 7])
             diff == dr + dg + db
         IN  DiffLoop(data, i + 4, diffSum + diff, maxDiff + 765)
    ELSE <<diffSum, maxDiff>>

DiffSums(image) == DiffLoop(GetImageData(image.pixels), 0, 0, 0)

computeComplexity(image) ==
    LET sums == DiffSums(image)
    IN  NumDiv(FromInt(sums[1]), sums[2])

\* getImageData throws IndexSizeError for an empty rectangle
ComplexityThrows(image) == CanvasW(image) = 0 \/ CanvasH(image) = 0

QMIN_SUGGEST == 60

QMAX_SUGGEST == 90

suggestedQuality(complexity) ==
    MathRound(NumAdd(FromInt(QMIN_SUGGEST),
                     NumMul(complexity, QMAX_SUGGEST - QMIN_SUGGEST)))

\* ------------------------------------------------------- Target-size input
\* characters the user types into the target-size input
Chars == {"0", "1", "-", "x"}

DigitVal == [c \in {"0", "1", "2", "3", "4", "5", "6", "7", "8", "9"} |->
               CASE c = "0" -> 0 [] c = "1" -> 1 [] c = "2" -> 2 [] c = "3" -> 3
                 [] c = "4" -> 4 [] c = "5" -> 5 [] c = "6" -> 6 [] c = "7" -> 7
                 [] c = "8" -> 8 [] c = "9" -> 9]

IsDigit(c) == c \in DOMAIN DigitVal

InputTexts == UNION {[1..n -> Chars] : n \in 0..MaxInputLen}

\* the digits parseInt consumes: the longest prefix of decimal digits
DigitPrefix[t \in Seq(STRING)] ==
    IF t = <<>> \/ ~IsDigit(t[1]) THEN <<>> ELSE <<t[1]>> \o DigitPrefix[Tail(t)]

DigitsValue[t \in Seq(STRING), acc \in Int] ==
    IF t = <<>> THEN acc ELSE DigitsValue[Tail(t), 10 * acc + DigitVal[t[1]]]

\* parseInt(text, 10): optional sign, then digits; NaN when there is no digit
ParseDigits[ds \in Seq(STRING), neg \in BOOLEAN] ==
    IF ds = <<>> THEN NaN
    ELSE FromInt(IF neg THEN -DigitsValue[ds, 0] ELSE DigitsValue[ds, 0])

ParseIntF[text \in Seq(STRING)] ==
    IF text # <<>> /\ text[1] = "-"
    THEN ParseDigits[DigitPrefix[Tail(text)], TRUE]
    ELSE ParseDigits[DigitPrefix[text], FALSE]

ParseInt(text) == ParseIntF[text]

\* ------------------------------------------------------------------- Codec
\* byte lengths of the buffers canvas.toBlob can call back with
Sizes == {1024, 1025, 11265}

\* a Blob: its byte length and the quality toBlob was called with
Null == [size |-> -1, q |-> NaN]

IsNull(blob) == blob.size < 0

\* ------------------------------------------------------------------- State
VARIABLES
    files,            \* per submitted file: how far its read/decode has got
    fileEntries,      \* the ledger: files in the order their entries were pushed
    entries,          \* per file: its entry (quality, convertedBlob, card)
    targetSizeInput,  \* text in the target-size input
    pipes,            \* per caller: its convertEntry invocation in flight
    convertAllBtn,    \* convert-all button and the position of its loop
    downloadAllBtn,   \* download-all button and the position of next()
    downloads,        \* files downloaded by the latest download-all run
    nevents           \* user events so far

vars == <<files, fileEntries, entries, targetSizeInput, pipes, convertAllBtn,
          downloadAllBtn, downloads, nevents>>

\* callers of convertEntry: the convert button of file f is caller f
ConvertAll == NFiles + 1

DownloadAll == NFiles + 2

Callers == 1..(NFiles + 2)

NoFile == [st |-> "none", image |-> NoImage]

\* resultOf is history: when the pipeline that stored convertedBlob was
\* started (-1: nothing was stored yet)
NoEntry == [quality |-> NaN, convertedBlob |-> Null, convertDisabled |-> FALSE,
            downloadDisabled |-> TRUE, label |-> <<"none", NaN>>, resultOf |-> -1]

\* a convertEntry invocation: its locals (targetKb, quality, q) and, as
\* history, the number of its codec invocations, the size of the buffer it
\* replaced last (-1: none yet) and whether every buffer it replaced was
\* larger than targetKb * 1024 bytes, and when it was started (the number of
\* user events before it)
IdlePipe == [pc |-> "idle", entry |-> 0, targetKb |-> NaN, quality |-> NaN,
             q |-> NaN, calls |-> 0, lastSize |-> -1, prevOver |-> TRUE,
             started |-> -1]

IdleBtn == [disabled |-> FALSE, pc |-> "idle", idx |-> 0]

HasEntry(f) == files[f].st = "loaded"

Init ==
    /\ files = [f \in Files |-> NoFile]
    /\ fileEntries = <<>>
    /\ entries = [f \in Files |-> NoEntry]
    /\ targetSizeInput = <<>>
    /\ pipes = [c \in Callers |-> IdlePipe]
    /\ convertAllBtn = IdleBtn
    /\ downloadAllBtn = IdleBtn
    /\ downloads = <<>>
    /\ nevents = 0

\* ----------------------------------------------------------------- Loading
Submitted == {f \in Files : files[f].st # "none"}

\* files handed to the page in the whole application: a text file and the
\* 1 x 1 image
SampleFiles ==
    {[type |-> "text/plain", image |-> NoImage],
     [type |-> "image/png",
      image |-> [naturalWidth |-> 1, naturalHeight |-> 1, pixels |-> <<<<0, 0, 0>>>>]]}

IsImageType(type) == type \in {"image/png", "image/jpeg"}

\* handleFiles(files): files that are not images are skipped, a FileReader
\* is started for each of the others.  The batch is the next n files.
HandleFiles(batch) ==
    LET n0 == Cardinality(Submitted)
    IN  /\ Len(batch) >= 1
        /\ n0 + Len(batch) <= NFiles
        /\ files' = [f \in Files |->
                        IF f > n0 /\ f <= n0 + Len(batch)
                        THEN IF IsImageType(batch[f - n0].type)
                             THEN [st |-> "reading", image |-> batch[f - n0].image]
                             ELSE [st |-> "skipped", image |-> NoImage]
                        ELSE files[f]]
        /\ UNCHANGED <<fileEntries, entries, targetSizeInput, pipes,
                       convertAllBtn, downloadAllBtn, downloads>>

\* reader.onload: the data URL is handed to a new Image
ReaderOnload(f) ==
    /\ files[f].st = "reading"
    /\ files' = [files EXCEPT ![f].st = "decoding"]
    /\ UNCHANGED <<fileEntries, entries, targetSizeInput, pipes,
                   convertAllBtn, downloadAllBtn, downloads>>

\* createCard(entry): label, slider and the two buttons
createCard(quality) ==
    [quality |-> quality, convertedBlob |-> Null, convertDisabled |-> FALSE,
     downloadDisabled |-> TRUE, label |-> <<"sugerida", quality>>, resultOf |-> -1]

\* img.onload: estimate, map, push the entry and build its card
ImgOnload(f) ==
    /\ files[f].st = "decoding"
    /\ IF ComplexityThrows(files[f].image)
       THEN /\ files' = [files EXCEPT ![f].st = "threw"]
            /\ UNCHANGED <<fileEntries, entries>>
       ELSE LET complexity == computeComplexity(files[f].image)
            IN  /\ files' = [files EXCEPT ![f].st = "loaded"]
                /\ fileEntries' = Append(fileEntries, f)
                /\ entries' = [entries EXCEPT ![f] = createCard(suggestedQuality(complexity))]
    /\ UNCHANGED <<targetSizeInput, pipes, convertAllBtn, downloadAllBtn,
                   downloads>>

\* ------------------------------------------------------------ convertEntry
\* the search loop with a step of 0
StepZero == Zero

\* the literals 0.05 and 0.2 of the search loop, as doubles
Step == NumDiv(FromInt(5), 100)

QFLOOR == NumDiv(FromInt(2), 10)

\* the budget test without targetKb > 0
HasBudgetAnyNumber(targetKb) == ~IsNaN(targetKb)

\* !isNaN(targetKb) && targetKb > 0
HasBudget(targetKb) == ~IsNaN(targetKb) /\ NumGt(targetKb, Zero)

\* the size test with >= for >
OverBudgetOrEqual(size, targetKb) ==
    ~NumGt(NumMul(targetKb, 1024), FromInt(size))

\* blob.size > targetKb * 1024
OverBudget(size, targetKb) == NumGt(FromInt(size), NumMul(targetKb, 1024))

\* the floor test against 0.25
AboveQuarter(q) == NumGt(q, NumDiv(FromInt(25), 100))

\* q > 0.2
AboveFloor(q) == NumGt(q, QFLOOR)

\* convertEntry(entry) up to its first await: the target is parsed, the
\* quality is read from the entry and the first toBlob is issued
StartedPipe(ents, f) ==
    [pc |-> "first", entry |-> f, targetKb |-> ParseInt(targetSizeInput),
     quality |-> NumDiv(ents[f].quality, 100), q |-> NumDiv(ents[f].quality, 100),
     calls |-> 1, lastSize |-> -1, prevOver |-> TRUE, started |-> nevents]

Min(S) == CHOOSE m \in S : \A n \in S : m <= n

\* the loop without the test of entry.convertedBlob: the next position
NextEntry(ents, from) == IF from <= Len(fileEntries) THEN from ELSE 0

\* for (const entry of fileEntries) if (!entry.convertedBlob): the first
\* position from `from` on whose entry has no blob, 0 when there is none
NextUnconverted(ents, from) ==
    LET cand == {k \in from..Len(fileEntries) : IsNull(ents[fileEntries[k]].convertedBlob)}
    IN  IF cand = {} THEN 0 ELSE Min(cand)

\* the loop of the convert-all handler leaving after its first conversion
ConvertAllLoopOnce(ents, from) ==
    LET k == IF from > 1 THEN 0 ELSE NextUnconverted(ents, from)
    IN  /\ entries' = ents
        /\ IF k = 0
           THEN /\ convertAllBtn' = IdleBtn
                /\ pipes' = [pipes EXCEPT ![ConvertAll] = IdlePipe]
           ELSE /\ convertAllBtn' = [disabled |-> TRUE, pc |-> "await", idx |-> k]
                /\ pipes' = [pipes EXCEPT ![ConvertAll] = StartedPipe(ents, fileEntries[k])]

\* the loop of the convert-all handler from ledger position `from` to its
\* next await, or to its end
ConvertAllLoop(ents, from) ==
    LET k == NextUnconverted(ents, from)
    IN  /\ entries' = ents
        /\ IF k = 0
           THEN /\ convertAllBtn' = IdleBtn
                /\ pipes' = [pipes EXCEPT ![ConvertAll] = IdlePipe]
           ELSE /\ convertAllBtn' = [disabled |-> TRUE, pc |-> "await", idx |-> k]
                /\ pipes' = [pipes EXCEPT ![ConvertAll] = StartedPipe(ents, fileEntries[k])]

\* next() of the download-all handler; idx counts the entries taken so far
DownloadNext(ents, idx, log) ==
    /\ entries' = ents
    /\ IF idx < Len(fileEntries)
       THEN LET f == fileEntries[idx + 1]
            IN  IF ~IsNull(ents[f].convertedBlob)
                THEN /\ downloads' = Append(log, f)
                     /\ downloadAllBtn' = [disabled |-> TRUE, pc |-> "timer", idx |-> idx + 1]
                     /\ pipes' = [pipes EXCEPT ![DownloadAll] = IdlePipe]
                ELSE /\ downloads' = log
                     /\ downloadAllBtn' = [disabled |-> TRUE, pc |-> "await", idx |-> idx + 1]
                     /\ pipes' = [pipes EXCEPT ![DownloadAll] = StartedPipe(ents, f)]
       ELSE /\ downloads' = log
            /\ downloadAllBtn' = IdleBtn
            /\ pipes' = [pipes EXCEPT ![DownloadAll] = IdlePipe]

\* convertEntry reads blob.size of a null blob: its promise rejects.  The
\* statements after the caller's await never run.
Throw(c) ==
    /\ pipes' = [pipes EXCEPT ![c] = IdlePipe]
    /\ convertAllBtn' = IF c = ConvertAll THEN [convertAllBtn EXCEPT !.pc = "threw"]
                        ELSE convertAllBtn
    /\ downloadAllBtn' = IF c = DownloadAll THEN [downloadAllBtn EXCEPT !.pc = "threw"]
                         ELSE downloadAllBtn
    /\ UNCHANGED <<entries, downloads>>

\* the end of convertEntry writing the quality used back into the entry
FinishWritingBack(c, blob, quality) ==
    LET f == pipes[c].entry
        ents == [entries EXCEPT ![f].convertedBlob = blob,
                                ![f].downloadDisabled = FALSE,
                                ![f].resultOf = pipes[c].started,
                                ![f].quality = MathRound(NumMul(quality, 100)),
                                ![f].label = <<"usada", MathRound(NumMul(quality, 100))>>]
    IN  IF c = ConvertAll
        THEN /\ ConvertAllLoop(ents, convertAllBtn.idx + 1)
             /\ UNCHANGED <<downloadAllBtn, downloads>>
        ELSE IF c = DownloadAll
        THEN /\ DownloadNext(ents, downloadAllBtn.idx, downloads)
             /\ UNCHANGED convertAllBtn
        ELSE /\ entries' = [ents EXCEPT ![c].convertDisabled = FALSE]
             /\ pipes' = [pipes EXCEPT ![c] = IdlePipe]
             /\ UNCHANGED <<convertAllBtn, downloadAllBtn, downloads>>

\* the end of convertEntry and what its caller does when the await returns
Finish(c, blob, quality) ==
    LET f == pipes[c].entry
        ents == [entries EXCEPT ![f].convertedBlob = blob,
                                ![f].downloadDisabled = FALSE,
                                ![f].resultOf = pipes[c].started,
                                ![f].label = <<"usada", MathRound(NumMul(quality, 100))>>]
    IN  IF c = ConvertAll
        THEN /\ ConvertAllLoop(ents, convertAllBtn.idx + 1)
             /\ UNCHANGED <<downloadAllBtn, downloads>>
        ELSE IF c = DownloadAll
        THEN /\ DownloadNext(ents, downloadAllBtn.idx, downloads)
             /\ UNCHANGED convertAllBtn
        ELSE /\ entries' = [ents EXCEPT ![c].convertDisabled = FALSE]
             /\ pipes' = [pipes EXCEPT ![c] = IdlePipe]
             /\ UNCHANGED <<convertAllBtn, downloadAllBtn, downloads>>

\* the callback without quality = q after the search loop
CodecCallbackStaleQuality(c, res) ==
    LET p == pipes[c]
        blob == IF res < 0 THEN Null
                ELSE [size |-> res, q |-> p.q]
    IN  /\ p.pc \in {"first", "loop"}
        /\ UNCHANGED <<files, fileEntries, targetSizeInput>>
        /\ IF HasBudget(p.targetKb)
           THEN IF res < 0
                THEN Throw(c)
                ELSE IF OverBudget(res, p.targetKb) /\ AboveFloor(p.q)
                THEN /\ pipes' = [pipes EXCEPT ![c] =
                           [p EXCEPT !.pc = "loop", !.q = NumSub(p.q, Step),
                                     !.calls = IF p.calls < CallsCap THEN p.calls + 1 ELSE p.calls,
                                     !.lastSize = res,
                                     !.prevOver = p.prevOver /\ res > ToInt(p.targetKb) * 1024]]
                     /\ UNCHANGED <<entries, convertAllBtn, downloadAllBtn, downloads>>
                ELSE Finish(c, blob, p.quality)
           ELSE Finish(c, blob, p.quality)

\* the callback of canvas.toBlob resolves the awaited promise: res is the
\* size of the buffer, or -1 when the codec calls back with null
CodecCallback(c, res) ==
    LET p == pipes[c]
        blob == IF res < 0 THEN Null
                ELSE [size |-> res, q |-> p.q]
    IN  /\ p.pc \in {"first", "loop"}
        /\ UNCHANGED <<files, fileEntries, targetSizeInput>>
        /\ IF HasBudget(p.targetKb)
           THEN IF res < 0
                THEN Throw(c)
                ELSE IF OverBudget(res, p.targetKb) /\ AboveFloor(p.q)
                THEN /\ pipes' = [pipes EXCEPT ![c] =
                           [p EXCEPT !.pc = "loop", !.q = NumSub(p.q, Step),
                                     !.calls = IF p.calls < CallsCap THEN p.calls + 1 ELSE p.calls,
                                     !.lastSize = res,
                                     !.prevOver = p.prevOver /\ res > ToInt(p.targetKb) * 1024]]
                     /\ UNCHANGED <<entries, convertAllBtn, downloadAllBtn, downloads>>
                ELSE Finish(c, blob, p.q)
           ELSE Finish(c, blob, p.quality)

\* ------------------------------------------------------------ User actions
\* buffer sizes the codec produces in the whole application
SampleSizes == {1024, 1025}

\* slider positions tried in the whole application
SampleSlider == {30}

\* texts typed into the target-size input in the whole application
SampleTargets == {<<>>, <<"1">>}

\* input event of a card's range slider (30..100)
SliderInput(f, v) ==
    /\ HasEntry(f)
    /\ entries' = [entries EXCEPT ![f].quality = FromInt(v),
                                  ![f].label = <<"calidad", FromInt(v)>>]
    /\ UNCHANGED <<files, fileEntries, targetSizeInput, pipes, convertAllBtn,
                   downloadAllBtn, downloads>>

SetTargetSize(text) ==
    /\ targetSizeInput' = text
    /\ UNCHANGED <<files, fileEntries, entries, pipes, convertAllBtn,
                   downloadAllBtn, downloads>>

\* click on a card's convert button
ClickConvert(f) ==
    /\ HasEntry(f)
    /\ ~entries[f].convertDisabled
    /\ entries' = [entries EXCEPT ![f].convertDisabled = TRUE]
    /\ pipes' = [pipes EXCEPT ![f] = StartedPipe(entries, f)]
    /\ UNCHANGED <<files, fileEntries, targetSizeInput, convertAllBtn,
                   downloadAllBtn, downloads>>

\* click on a card's download button: saves the blob when there is one
ClickDownload(f) ==
    /\ HasEntry(f)
    /\ ~entries[f].downloadDisabled
    /\ UNCHANGED <<files, fileEntries, entries, targetSizeInput, pipes,
                   convertAllBtn, downloadAllBtn, downloads>>

ClickConvertAll ==
    /\ ~convertAllBtn.disabled
    /\ ConvertAllLoop(entries, 1)
    /\ UNCHANGED <<files, fileEntries, targetSizeInput, downloadAllBtn, downloads>>

ClickDownloadAll ==
    /\ ~downloadAllBtn.disabled
    /\ DownloadNext(entries, 0, <<>>)
    /\ UNCHANGED <<files, fileEntries, targetSizeInput, convertAllBtn>>

\* setTimeout(next, 500) fires
DownloadTimer ==
    /\ downloadAllBtn.pc = "timer"
    /\ DownloadNext(entries, downloadAllBtn.idx, downloads)
    /\ UNCHANGED <<files, fileEntries, targetSizeInput, convertAllBtn>>

\* ---------------------------------------------------------- Specifications
\* a user event is counted; the session has at most MaxEvents of them
Counted == nevents < MaxEvents /\ nevents' = nevents + 1

\* the whole application: what the user does and what the browser calls back
Next ==
    \/ Counted /\ \E n \in 1..NFiles : \E batch \in [1..n -> SampleFiles] : HandleFiles(batch)
    \/ Counted /\ \E f \in Files : \E v \in SampleSlider : SliderInput(f, v)
    \/ Counted /\ \E text \in SampleTargets : SetTargetSize(text)
    \/ Counted /\ \E f \in Files : ClickConvert(f)
    \/ Counted /\ \E f \in Files : ClickDownload(f)
    \/ Counted /\ ClickConvertAll
    \/ Counted /\ ClickDownloadAll
    \/ UNCHANGED nevents /\ \E f \in Files : ReaderOnload(f)
    \/ UNCHANGED nevents /\ \E f \in Files : ImgOnload(f)
    \/ UNCHANGED nevents /\ DownloadTimer
    \/ UNCHANGED nevents /\ \E c \in Callers : \E res \in SampleSizes : CodecCallback(c, res)
    \/ UNCHANGED nevents /\ \E c \in Callers : CodecCallback(c, -1)

Spec == Init /\ [][Next]_vars

\* ------------------------------------------------- Loading one file alone
\* every file the model has: a text file and every image
AllFiles ==
    {[type |-> "text/plain", image |-> NoImage]}
        \cup [type : {"image/png"}, image : Images]

NextLoad ==
    \/ UNCHANGED nevents /\ \E kind \in AllFiles : Submitted = {} /\ HandleFiles(<<kind>>)
    \/ UNCHANGED nevents /\ ReaderOnload(1)
    \/ UNCHANGED nevents /\ ImgOnload(1)

SpecLoad == Init /\ [][NextLoad]_vars

\* ------------------------------------------- One entry and its convert button
\* the page after one image was loaded, its slider was moved to any position
\* and any text was typed into the target-size input
InitEnc ==
    /\ files = [f \in Files |->
                    IF f = 1
                    THEN [st |-> "loaded",
                          image |-> [naturalWidth |-> 1, naturalHeight |-> 1,
                                     pixels |-> <<<<0, 0, 0>>>>]]
                    ELSE NoFile]
    /\ fileEntries = <<1>>
    /\ \E v \in 30..100 :
          entries = [f \in Files |->
                        IF f = 1
                        THEN [createCard(NaN) EXCEPT !.quality = FromInt(v),
                                                     !.label = <<"calidad", FromInt(v)>>]
                        ELSE NoEntry]
    /\ targetSizeInput \in InputTexts
    /\ pipes = [c \in Callers |-> IdlePipe]
    /\ convertAllBtn = IdleBtn
    /\ downloadAllBtn = IdleBtn
    /\ downloads = <<>>
    /\ nevents = 0

ConvertOk == UNCHANGED nevents /\ \E res \in Sizes : CodecCallback(1, res)

ConvertFails == UNCHANGED nevents /\ CodecCallback(1, -1)

NextEnc ==
    \/ UNCHANGED nevents /\ ClickConvert(1)
    \/ ConvertOk
    \/ ConvertFails

SpecEnc == InitEnc /\ [][NextEnc]_vars

\* the same from the page with the loaded image alone: the user sets the
\* slider and the target size, then converts; the codec always calls back,
\* and with a buffer
InitEnc1 ==
    /\ files = [f \in Files |->
                    IF f = 1
                    THEN [st |-> "loaded",
                          image |-> [naturalWidth |-> 1, naturalHeight |-> 1,
                                     pixels |-> <<<<0, 0, 0>>>>]]
                    ELSE NoFile]
    /\ fileEntries = <<1>>
    /\ entries = [f \in Files |-> IF f = 1 THEN createCard(NaN) ELSE NoEntry]
    /\ targetSizeInput = <<>>
    /\ pipes = [c \in Callers |-> IdlePipe]
    /\ convertAllBtn = IdleBtn
    /\ downloadAllBtn = IdleBtn
    /\ downloads = <<>>
    /\ nevents = 0

Untouched == pipes[1].pc = "idle" /\ IsNull(entries[1].convertedBlob)

\* target sizes typed before converting: none, 1 KB, 10 KB
FairTargets == {<<>>, <<"1">>, <<"1", "0">>}

NextEncOk ==
    \/ UNCHANGED nevents /\ Untouched /\ \E v \in 30..100 : SliderInput(1, v)
    \/ UNCHANGED nevents /\ Untouched /\ \E text \in FairTargets : SetTargetSize(text)
    \/ UNCHANGED nevents /\ ClickConvert(1)
    \/ ConvertOk

\* toBlob calls back: a codec invocation in flight is eventually answered
SpecEncFair ==
    InitEnc1 /\ [][NextEncOk]_vars /\ WF_vars(ConvertOk)

\* ------------------------------------------ One entry, a deterministic codec
\* deterministic codecs: the byte length is a function of the image and the
\* quality.  One codec per colour of the one-pixel image: always 1 KB, always
\* more than 11 KB, 1 KB up to quality 0.5 and a byte more above it, and a
\* length growing with the quality (toBlob encodes at its default quality
\* when the quality is not a number in 0..1).
DetCodec(image, q) ==
    LET colour == image.pixels[1]
    IN  CASE colour = <<0, 0, 0>> -> 1024
          [] colour = <<255, 255, 255>> -> 11265
          [] colour = <<255, 0, 0>> ->
                IF NumGt(q, NumDiv(FromInt(5), 10)) THEN 1025 ELSE 1024
          [] OTHER ->
                IF IsNaN(q) THEN 1092 ELSE 1000 + ToInt(MathRound(NumMul(q, 100)))

InitDet ==
    /\ \E colour \in Colours :
          files = [f \in Files |->
                      IF f = 1
                      THEN [st |-> "loaded",
                            image |-> [naturalWidth |-> 1, naturalHeight |-> 1,
                                       pixels |-> <<colour>>]]
                      ELSE NoFile]
    /\ fileEntries = <<1>>
    /\ \E v \in 30..100 :
          entries = [f \in Files |->
                        IF f = 1
                        THEN [createCard(NaN) EXCEPT !.quality = FromInt(v),
                                                     !.label = <<"calidad", FromInt(v)>>]
                        ELSE NoEntry]
    /\ targetSizeInput \in InputTexts
    /\ pipes = [c \in Callers |-> IdlePipe]
    /\ convertAllBtn = IdleBtn
    /\ downloadAllBtn = IdleBtn
    /\ downloads = <<>>
    /\ nevents = 0

DetCallback ==
    /\ UNCHANGED nevents
    /\ pipes[1].pc # "idle"
    /\ CodecCallback(1, DetCodec(files[1].image, pipes[1].q))

\* the convert button is clicked again and again
NextDet ==
    \/ Counted /\ ClickConvert(1)
    \/ DetCallback

SpecDet == InitDet /\ [][NextDet]_vars

\* ------------------------------------------------- Two entries, all buttons
\* the card of an entry that was converted before: at quality 35, without a
\* budget, to a buffer of 1025 bytes
ConvertedCard ==
    [quality |-> FromInt(35),
     convertedBlob |-> [size |-> 1025, q |-> NumDiv(FromInt(35), 100)],
     convertDisabled |-> FALSE, downloadDisabled |-> FALSE,
     label |-> <<"usada", FromInt(35)>>, resultOf |-> 0]

\* the page after two one-pixel images were loaded; each of them is
\* untouched or was converted before, and those were the user's events so
\* far
InitTwo ==
    /\ files = [f \in Files |->
                    IF f <= 2
                    THEN [st |-> "loaded",
                          image |-> [naturalWidth |-> 1, naturalHeight |-> 1,
                                     pixels |-> <<<<0, 0, 0>>>>]]
                    ELSE NoFile]
    /\ fileEntries = <<1, 2>>
    /\ \E cards \in [1..2 -> {createCard(NaN), ConvertedCard}] :
          entries = [f \in Files |-> IF f <= 2 THEN cards[f] ELSE NoEntry]
    /\ targetSizeInput \in SampleTargets
    /\ pipes = [c \in Callers |-> IdlePipe]
    /\ convertAllBtn = IdleBtn
    /\ downloadAllBtn = IdleBtn
    /\ downloads = <<>>
    /\ nevents = 1

\* clicks and inputs after that
MaxClicks == 3

Clicked == nevents <= MaxClicks /\ nevents' = nevents + 1

NextTwo ==
    \/ Clicked /\ \E f \in Files : \E v \in SampleSlider : SliderInput(f, v)
    \/ Clicked /\ \E text \in SampleTargets : SetTargetSize(text)
    \/ Clicked /\ \E f \in Files : ClickConvert(f)
    \/ Clicked /\ ClickConvertAll
    \/ Clicked /\ ClickDownloadAll
    \/ UNCHANGED nevents /\ DownloadTimer
    \/ UNCHANGED nevents /\ \E c \in Callers : \E res \in SampleSizes : CodecCallback(c, res)
    \/ UNCHANGED nevents /\ \E c \in Callers : CodecCallback(c, -1)

SpecTwo == InitTwo /\ [][NextTwo]_vars

\* ------------------------------------------------ Convert-all, a codec that
\* always answers with a buffer
\* files are submitted, read and decoded, sliders and the target size are
\* set and convert-all is clicked, before and during a run
ConvertAllOk ==
    UNCHANGED nevents /\ \E res \in SampleSizes : CodecCallback(ConvertAll, res)

NextAll ==
    \/ Counted /\ \E n \in 1..NFiles : \E batch \in [1..n -> SampleFiles] : HandleFiles(batch)
    \/ Counted /\ \E f \in Files : \E v \in SampleSlider : SliderInput(f, v)
    \/ Counted /\ \E text \in SampleTargets : SetTargetSize(text)
    \/ Counted /\ ClickConvertAll
    \/ UNCHANGED nevents /\ \E f \in Files : ReaderOnload(f)
    \/ UNCHANGED nevents /\ \E f \in Files : ImgOnload(f)
    \/ ConvertAllOk

\* toBlob calls back: a codec invocation in flight is eventually answered
SpecAllFair == Init /\ [][NextAll]_vars /\ WF_vars(ConvertAllOk)

\* ------------------------------------------------------------------ Claims
\* the byte budget of a valid target size
BudgetBytes(targetKb) == ToInt(targetKb) * 1024

\* the step in which the pipeline of convert button 1 completes (its await
\* returns and the button is enabled again)
Completes1 ==
    /\ pipes[1].pc # "idle"
    /\ pipes'[1].pc = "idle"
    /\ ~entries'[1].convertDisabled

\* the quality the entry's pipeline starts from, as a fraction
StartQuality == NumDiv(entries[1].quality, 100)

\* C1: with a valid positive budget no codec invocation is issued at a
\* quality below the floor 0.2, and the quality reported is never below 20.
C1_NeverBelowFloor ==
    HasBudget(ParseInt(targetSizeInput)) =>
        /\ pipes[1].pc # "idle" => ~NumLt(pipes[1].q, QFLOOR)
        /\ entries[1].label[1] = "usada" => ~NumLt(entries[1].label[2], FromInt(20))

\* C2: when convertEntry completes with a valid positive budget, the stored
\* buffer is within the budget or was encoded at a quality at or below the
\* floor 0.2; it is the buffer of the last quality tried, and every buffer
\* tried before it was strictly larger than the budget.
C2_BudgetOrFloor ==
    [][(Completes1 /\ HasBudget(pipes[1].targetKb)) =>
          LET blob == entries'[1].convertedBlob
              budget == BudgetBytes(pipes[1].targetKb)
          IN  /\ ~IsNull(blob)
              /\ blob.size <= budget \/ ~NumGt(blob.q, QFLOOR)
              /\ blob.q = pipes[1].q
              /\ pipes[1].prevOver
              /\ pipes[1].lastSize = -1 \/ pipes[1].lastSize > budget]_vars

\* a search that went below the starting quality and met the budget
C2_Witness ==
    /\ HasBudget(ParseInt(targetSizeInput))
    /\ pipes[1].pc = "idle"
    /\ ~IsNull(entries[1].convertedBlob)
    /\ entries[1].convertedBlob.size <= BudgetBytes(ParseInt(targetSizeInput))
    /\ NumLt(entries[1].convertedBlob.q, StartQuality)

\* C3: when no buffer satisfies the budget, the loop performs exactly
\* floor((startQuality - 0.20) / 0.05) decrements and the buffer stored is
\* the one encoded at the floor quality 0.2.
C3_FloorSteps ==
    [][(/\ Completes1
        /\ HasBudget(pipes[1].targetKb)
        /\ pipes[1].prevOver
        /\ ~IsNull(entries'[1].convertedBlob)
        /\ entries'[1].convertedBlob.size > BudgetBytes(pipes[1].targetKb)) =>
          /\ pipes[1].calls - 1 = Max(0, (ToInt(entries[1].quality) - 20) \div 5)
          /\ entries'[1].convertedBlob.q = QFLOOR]_vars

\* C4: when the buffer encoded at the initial quality satisfies a valid
\* budget, convertEntry completes after that one invocation, stores that
\* buffer and reports the initial quality: the step that answers the first
\* invocation goes on searching only when the buffer is over the budget, and
\* when it completes it reports the slider's quality unchanged.
C4_OneCallWhenFits ==
    [][(/\ pipes[1].pc = "first"
        /\ HasBudget(pipes[1].targetKb)
        /\ pipes'[1] # pipes[1]
        /\ ~(pipes'[1].pc = "idle" /\ entries'[1].convertDisabled)) =>
          \/ /\ pipes'[1].pc = "loop"
             /\ pipes'[1].lastSize > BudgetBytes(pipes[1].targetKb)
          \/ /\ Completes1
             /\ pipes[1].calls = 1
             /\ entries'[1].convertedBlob.q = StartQuality
             /\ entries'[1].label = <<"usada", entries[1].quality>>]_vars

\* the first buffer fits the budget and is stored with the initial quality
C4_Witness ==
    /\ HasBudget(ParseInt(targetSizeInput))
    /\ pipes[1].pc = "idle"
    /\ ~IsNull(entries[1].convertedBlob)
    /\ entries[1].convertedBlob.size <= BudgetBytes(ParseInt(targetSizeInput))
    /\ entries[1].convertedBlob.q = StartQuality
    /\ entries[1].label = <<"usada", entries[1].quality>>

\* a text that is empty, has no number at its start, or whose number is zero
\* or negative
AllZeros(body) ==
    \A i \in 1..Len(body) : (\A j \in 1..i : IsDigit(body[j])) => body[i] = "0"

NoBudgetText(text) ==
    LET neg  == text # <<>> /\ text[1] = "-"
        body == IF neg THEN Tail(text) ELSE text
    IN  \/ body = <<>>
        \/ ~IsDigit(body[1])
        \/ neg
        \/ AllZeros(body)

C6_Terminates ==
    (pipes[1].pc # "idle") ~>
        (/\ pipes[1].pc = "idle"
         /\ ~IsNull(entries[1].convertedBlob)
         /\ ~entries[1].downloadDisabled)

\* a search of at least ten invocations has completed
C6_Witness ==
    /\ pipes[1].pc = "idle"
    /\ ~IsNull(entries[1].convertedBlob)
    /\ NumLt(entries[1].convertedBlob.q, NumDiv(FromInt(5), 10))
    /\ entries[1].quality = FromInt(100)

\* fewer than 2 pixels on the canvas of computeComplexity
FewPixels(image) == CanvasW(image) * CanvasH(image) < 2

\* C7: for every accepted image the complexity is a number in [0, 1], and an
\* image with fewer than 2 pixels after resampling gets an entry with the
\* minimum suggested quality 60.
C7_ComplexityNormalized ==
    \A f \in Files :
        /\ HasEntry(f) =>
              LET c == computeComplexity(files[f].image)
              IN  /\ ~IsNaN(c)
                  /\ ~NumLt(c, Zero)
                  /\ ~NumGt(c, FromInt(1))
        /\ (HasEntry(f) /\ FewPixels(files[f].image)) =>
              entries[f].quality = FromInt(QMIN_SUGGEST)

\* C8: every entry is created with a quality in [60, 90], and the suggested
\* quality never decreases when the complexity score grows.
C8_QualityInRange ==
    \A f \in Files :
        HasEntry(f) =>
            /\ ~IsNaN(entries[f].quality)
            /\ ~NumLt(entries[f].quality, FromInt(QMIN_SUGGEST))
            /\ ~NumGt(entries[f].quality, FromInt(QMAX_SUGGEST))
            /\ \A other \in SmallImages :
                  LET c == computeComplexity(files[f].image)
                      d == computeComplexity(other)
                  IN  (~IsNaN(c) /\ ~IsNaN(d) /\ ~NumGt(c, d)) =>
                          ~NumGt(suggestedQuality(c), suggestedQuality(d))

\* C9: a convert-all run takes the entries in the order their files were
\* submitted (file 1 before file 2): when it starts the pipeline of a file,
\* every entry of a file submitted earlier has been converted.
C9_SubmissionOrder ==
    [][\A f \in Files :
          (/\ pipes'[ConvertAll] # pipes[ConvertAll]
           /\ pipes'[ConvertAll].pc = "first"
           /\ pipes'[ConvertAll].entry = f) =>
              \A g \in 1..(f - 1) :
                  HasEntry(g) => ~IsNull(entries'[g].convertedBlob)]_vars

\* C10: a codec failure for one entry does not affect the others: when the
\* pipeline a convert-all run waits for ends and no other is started, the
\* convert-all button is enabled again and every entry after it in the
\* ledger has been converted.
C10_FailureIsLocal ==
    [][(pipes[ConvertAll].pc # "idle" /\ pipes'[ConvertAll].pc = "idle") =>
          /\ ~convertAllBtn'.disabled
          /\ \A k \in (convertAllBtn.idx + 1)..Len(fileEntries) :
                ~IsNull(entries'[fileEntries[k]].convertedBlob)]_vars

\* C11: when the codec fails (toBlob calls back with null) the pipeline
\* records no buffer for the entry and the entry's convert button is enabled
\* again.
C11_FailureLeavesConvertible ==
    [][ConvertFails =>
          /\ \/ IsNull(entries'[1].convertedBlob)
             \/ entries'[1].convertedBlob = entries[1].convertedBlob
          /\ ~entries'[1].convertDisabled]_vars

\* C12: with a deterministic codec a second run of convertEntry on the same
\* entry, quality setting and budget stores a buffer of the same length
\* encoded at the same quality and reports the same quality; no step of a
\* conversion changes the entry's quality setting.
C12_SecondRunSame ==
    [][/\ pipes[1].pc # "idle" => entries'[1].quality = entries[1].quality
       /\ (Completes1 /\ ~IsNull(entries[1].convertedBlob)) =>
              /\ entries'[1].convertedBlob = entries[1].convertedBlob
              /\ entries'[1].label = entries[1].label]_vars

\* a second run has completed after a search below the starting quality
C12_Witness ==
    /\ nevents = 2
    /\ pipes[1].pc = "idle"
    /\ ~entries[1].convertDisabled
    /\ ~IsNull(entries[1].convertedBlob)
    /\ NumLt(entries[1].convertedBlob.q, StartQuality)
    /\ entries[1].label[1] = "usada"

\* C13: from quality 90 with a budget that no buffer satisfies, convertEntry
\* performs 14 decrements, hence 15 codec invocations, and reports 20.
C13_FromNinety ==
    [][(/\ Completes1
        /\ entries[1].quality = FromInt(90)
        /\ HasBudget(pipes[1].targetKb)
        /\ pipes[1].prevOver
        /\ ~IsNull(entries'[1].convertedBlob)
        /\ entries'[1].convertedBlob.size > BudgetBytes(pipes[1].targetKb)) =>
          /\ pipes[1].calls = 15
          /\ entries'[1].label = <<"usada", FromInt(20)>>]_vars

\* the search from 90 has ended over the budget and reported 20
C13_Witness ==
    /\ entries[1].quality = FromInt(90)
    /\ HasBudget(ParseInt(targetSizeInput))
    /\ pipes[1].pc = "idle"
    /\ ~entries[1].convertDisabled
    /\ ~IsNull(entries[1].convertedBlob)
    /\ entries[1].convertedBlob.size > BudgetBytes(ParseInt(targetSizeInput))
    /\ entries[1].label = <<"usada", FromInt(20)>>

\* the step in which the pipeline of caller c ends
Ends(c) ==
    /\ pipes[c].pc # "idle"
    /\ pipes'[c] # pipes[c]
    /\ pipes'[c].pc # "loop"

\* it ends because convertEntry threw
Threw(c) ==
    IF c = ConvertAll THEN convertAllBtn'.pc = "threw"
    ELSE IF c = DownloadAll THEN downloadAllBtn'.pc = "threw"
    ELSE pipes'[c].pc = "idle" /\ entries'[c].convertDisabled

\* C14: when a pipeline completes, the buffer it stores and the quality it
\* reports are those of its last codec invocation, also when pipelines are
\* interleaved.
C14_BufferAndQualityAgree ==
    [][\A c \in Callers :
          (Ends(c) /\ ~Threw(c)) =>
              LET f == pipes[c].entry
                  blob == entries'[f].convertedBlob
              IN  /\ ~IsNull(blob) => blob.q = pipes[c].q
                  /\ entries'[f].label = <<"usada", MathRound(NumMul(pipes[c].q, 100))>>
                  /\ entries'[f].resultOf = pipes[c].started]_vars

\* a pipeline has stored the buffer of a search below its starting quality
\* while another pipeline is in flight for the same entry
C14_Witness ==
    \E f \in Files : \E c \in Callers :
        /\ pipes[c].pc # "idle"
        /\ pipes[c].entry = f
        /\ ~IsNull(entries[f].convertedBlob)
        /\ entries[f].resultOf > 0
        /\ NumLt(entries[f].convertedBlob.q, NumDiv(entries[f].quality, 100))
        /\ entries[f].label =
              <<"usada", MathRound(NumMul(entries[f].convertedBlob.q, 100))>>

\* C15: a download-all run downloads every entry of the ledger once, in
\* ledger order, the entries it had to convert included: when the run ends
\* with every entry holding a buffer, its downloads are the ledger.
C15_DownloadsAll ==
    [][(/\ downloadAllBtn.pc # "idle"
        /\ downloadAllBtn'.pc = "idle"
        /\ \A k \in 1..Len(fileEntries') :
              ~IsNull(entries'[fileEntries'[k]].convertedBlob)) =>
          downloads' = fileEntries']_vars

\* C16: when every codec invocation is answered with a buffer, a convert-all
\* run eventually ends with its button enabled again, and at that moment
\* every entry of the ledger holds a buffer, the entries pushed during the
\* run included.
C16_ConvertAllCompletes ==
    /\ convertAllBtn.disabled ~> ~convertAllBtn.disabled
    /\ [][(convertAllBtn.disabled /\ ~convertAllBtn'.disabled) =>
             \A k \in 1..Len(fileEntries') :
                 ~IsNull(entries'[fileEntries'[k]].convertedBlob)]_vars

\* a run has ended with two entries in the ledger, converted one after the
\* other
C16_Witness ==
    /\ ~convertAllBtn.disabled
    /\ Len(fileEntries) = 2
    /\ \A k \in 1..2 : entries[fileEntries[k]].label[1] = "usada"
    /\ entries[fileEntries[2]].resultOf > entries[fileEntries[1]].resultOf

\* C17: at no time are two convertEntry pipelines in flight for the same
\* entry.
C17_OnePipelinePerEntry ==
    \A c1 \in Callers : \A c2 \in Callers :
        (c1 # c2 /\ pipes[c1].pc # "idle" /\ pipes[c2].pc # "idle") =>
            pipes[c1].entry # pipes[c2].entry

\* C18: the buffer of a pipeline never replaces the buffer of a pipeline
\* that was started later for the same entry.
C18_NewestResultKept ==
    [][\A c \in Callers :
          (Ends(c) /\ ~Threw(c)) =>
              LET f == pipes[c].entry
              IN  ~(/\ ~IsNull(entries[f].convertedBlob)
                    /\ entries[f].resultOf > pipes[c].started)]_vars

\* C19: an entry's download button is enabled exactly when the entry holds a
\* buffer.
C19_DownloadIffBuffer ==
    \A f \in Files :
        HasEntry(f) =>
            (~entries[f].downloadDisabled <=> ~IsNull(entries[f].convertedBlob))

\* a step of the convert-all handler: its click or a callback of the
\* pipeline it waits for
ConvertAllStep ==
    convertAllBtn' # convertAllBtn \/ pipes'[ConvertAll] # pipes[ConvertAll]

\* C20: a convert-all run leaves the entries that hold a buffer when the
\* loop reaches them as they are: it starts a pipeline only for an entry
\* without a buffer, and its steps change no entry but the one its pipeline
\* is converting.
C20_ConvertAllSkipsConverted ==
    [][/\ (pipes'[ConvertAll] # pipes[ConvertAll] /\ pipes'[ConvertAll].pc = "first") =>
              IsNull(entries'[pipes'[ConvertAll].entry].convertedBlob)
       /\ ConvertAllStep =>
              \A f \in Files :
                  f # pipes[ConvertAll].entry => entries'[f] = entries[f]]_vars

\* the run has passed the first entry, converted before and its slider moved
\* since, and is converting the second
C20_Witness ==
    /\ convertAllBtn.pc = "await"
    /\ convertAllBtn.idx = 2
    /\ pipes[ConvertAll].entry = 2
    /\ entries[1].resultOf = 0
    /\ entries[1].convertedBlob = ConvertedCard.convertedBlob
    /\ entries[1].label[1] = "calidad"
    /\ entries[1].quality # ConvertedCard.quality

====
